---- MODULE Spec2Model ----
(***************************************************************************)
(* nvitop: DevicePanel (nvitop/gui/screens/main/device.py) and main()      *)
(* (nvitop/cli.py).                                                        *)
(*                                                                         *)
(* Two execution contexts act on one DevicePanel: the foreground thread    *)
(* ("main": constructor, poke, draw, print, destroy) and the snapshot      *)
(* daemon thread ("daemon": _snapshot_target).  Time is counted in tenths  *)
(* of a time unit: the ttl of take_snapshots' cache is 10, the daemon's    *)
(* sleep is 7.                                                             *)
(*                                                                         *)
(* A list object is modelled by its value, a record                        *)
(*     [id |-> identity, by |-> the thread that built it, items |-> ...]   *)
(* A list is mutated only through the local variable `snapshots` of the    *)
(* take_snapshots call that builds it.                                     *)
(***************************************************************************)
EXTENDS Integers, Sequences, FiniteSets

\* Largest number of tracked devices explored.
MaxDevices == 2

\* @ttl_cache(ttl=1.0), in tenths.
TTL == 10

\* DevicePanel.SNAPSHOT_INTERVAL = 0.7, in tenths.
SNAPSHOT_INTERVAL == 7

Threads == {"main", "daemon"}

VARIABLES
    device_count,       \* self.device_count = len(self.devices)
    pc,                 \* pc[t]: where thread t is
    local,              \* local[t]: the local `snapshots` of t's take_snapshots call
    call,               \* call[t]: what t's latest take_snapshots call did
    value,              \* the argument of the snapshots setter being executed
    _snapshot_buffer,   \* self._snapshot_buffer, the staged list
    _snapshots,         \* self._snapshots, the current list
    snapshot_lock,      \* self.snapshot_lock: "free" or the thread holding it
    _daemon_running,    \* self._daemon_running (threading.Event)
    daemon_started,     \* self._snapshot_daemon.start() has been called
    start_error,        \* start() was called again and raised RuntimeError
    constructed,        \* DevicePanel.__init__ has returned
    cache,              \* the ttl_cache entry for this panel (NoList: none)
    cacheAge,           \* time since the entry was stored, saturating at TTL
    sinceCall,          \* time since the latest querying call was made, saturating at TTL
    sleepLeft,          \* time left of the daemon's time.sleep
    _compact,           \* self._compact
    width,              \* self.width
    height,             \* self.height
    full_height,        \* self.full_height
    compact_height,     \* self.compact_height
    need_redraw,        \* self.need_redraw
    selected,           \* the device of self.parent.selected.process (0: none)
    lastDraw,           \* what the latest draw() wrote, while no other foreground
                        \* operation has followed it (NoOutput otherwise)
    monitor,            \* main: hasattr(args, 'monitor')
    messages,           \* main: messages
    count,              \* main: device_count, the result of Device.count()
    mode,               \* main: how top was constructed: "monitor", "text" or "none"
    tops,               \* main: the number of Top objects constructed
    stdout,             \* the lines the latest print() wrote
    prints,             \* the number of print() calls
    stderr,             \* main: the number of lines printed to sys.stderr
    rc,                 \* main: the exit status (-1: running)
    argv,               \* the values given to --gpu-util-thresh and --mem-util-thresh
    environ,            \* NVITOP_GPU_UTILIZATION_THRESHOLDS, NVITOP_MEMORY_UTILIZATION_THRESHOLDS
    args_thresh,        \* args.gpu_util_thresh and args.mem_util_thresh (<<>>: None)
    device_thresholds   \* Device.GPU_UTILIZATION_THRESHOLDS and
                        \* Device.MEMORY_UTILIZATION_THRESHOLDS (<<>>: the default)

\* The panel's geometry and dirty flag.
geometry == <<_compact, width, height, full_height, compact_height, need_redraw,
              selected>>

\* The state of main().
program == <<monitor, messages, count, mode, tops, stdout, prints, stderr, rc,
             argv, environ, args_thresh, device_thresholds>>

\* The threshold options from the command line to Device.
coloring == <<argv, environ, args_thresh, device_thresholds>>

vars == <<device_count, pc, local, call, value, _snapshot_buffer, _snapshots,
          snapshot_lock, _daemon_running, daemon_started, start_error, constructed,
          cache, cacheAge, sinceCall, sleepLeft, geometry, lastDraw, program>>

----------------------------------------------------------------------------
\* Lists and snapshots

NoList == [id |-> -1, by |-> "none", items |-> <<>>]

\* `[]` of line 38 and `[]` of line 39: two distinct empty lists.
EmptyBuffer == [id |-> 0, by |-> "init", items |-> <<>>]
EmptyCurrent == [id |-> 1, by |-> "init", items |-> <<>>]

Min(a, b) == IF a < b THEN a ELSE b
Max(a, b) == IF a > b THEN a ELSE b

\* The identities of the lists some variable still refers to.
LiveIds == {l.id : l \in {_snapshot_buffer, _snapshots, cache, value}
                        \cup {local[t] : t \in Threads}}

\* The identity of a newly allocated list: one no live list has.
FreshId == CHOOSE i \in 0..Cardinality(LiveIds) :
               /\ i \notin LiveIds
               /\ \A j \in 0..(i - 1) : j \in LiveIds

\* device.as_snapshot() of device number dev, put in list number id.
AsSnapshot(dev, id) == [dev |-> dev, of |-> id, cooked |-> FALSE]

\* Lines 103-112: the cosmetic rewrite of one snapshot.
Cosmetic(s) == [s EXCEPT !.cooked = TRUE]

NoCall == [hit |-> FALSE, age |-> TTL, since |-> TTL, nq |-> 0, wrote |-> FALSE,
           done |-> FALSE, ret |-> -1]

----------------------------------------------------------------------------
\* Geometry, frame and output of the panel

\* Widths of the root window explored: narrower than the least width 79, wide
\* enough for bars (100), wide enough for two bars in a compact row (123).
RootWidths == {60, 100, 123}

\* What time.strftime reads at two draws: the same second (0, 0) or another (0, 1).
ClockReadings == {0, 1}

\* The selections of the parent explored for a panel of n devices: none (0),
\* or the first device, which leaves every other device unselected.
Selections(n) == 0..Min(n, 1)

FullHeightNoMinimum(n) == 4 + 3 * (n + 1)

\* Lines 29, 32-33.
FullHeight(n) == IF n = 0 THEN 6 ELSE 4 + 3 * (n + 1)

\* Lines 30, 32-33.
CompactHeight(n) == IF n = 0 THEN 6 ELSE 4 + 2 * (n + 1)

\* Lines 27-33: the geometry of a new panel of n devices in a root of width w.
NewGeometry(n, c, w) ==
    [compact |-> c, width |-> Max(79, w), full |-> FullHeight(n),
     compactH |-> CompactHeight(n),
     height |-> IF c THEN CompactHeight(n) ELSE FullHeight(n)]

\* One line of text: its kind, the width it is extended by to the right of column
\* 79, and, for a device row, the snapshot it shows (list, device) with or without bar.
Line(k) == [kind |-> k, ext |-> 0, of |-> -1, dev |-> 0, bar |-> FALSE]

\* Lines 125-154.
HeaderLines(compact) ==
    <<Line("top"), Line("driver")>> \o
    (IF device_count > 0
     THEN <<Line("header_sep")>> \o
          (IF compact THEN <<Line("header_compact")>>
                      ELSE <<Line("header_full_1"), Line("header_full_2")>>) \o
          <<Line("header_end")>>
     ELSE <<Line("nodev_sep"), Line("nodev_text"), Line("nodev_bottom")>>)

\* Lines 156-180.
FrameLines(compact) ==
    LET frame == HeaderLines(compact)
        remaining_width == width - 79
        ext == IF width >= 100 THEN remaining_width ELSE 0
        data_line == [Line("data") EXCEPT !.ext = ext]
        separator_line == [Line("separator") EXCEPT !.ext = ext]
        group == IF compact THEN <<data_line, separator_line>>
                            ELSE <<data_line, data_line, separator_line>>
        rows == [i \in 1..(device_count * Len(group)) |->
                    group[((i - 1) % Len(group)) + 1]]
        whole == frame \o SubSeq(rows, 1, Len(rows) - 1) \o <<Line("bottom")>>
        k == (5 - (IF compact THEN 1 ELSE 0)) + 1
    IN  IF device_count > 0
        THEN IF width >= 100
             THEN [whole EXCEPT ![k].ext = remaining_width,
                                ![Len(whole)].ext = remaining_width]
             ELSE whole
        ELSE frame

\* One write to the curses window: addstr or color_at at (row, col), rows counted
\* from self.y and columns from self.x.
Write(r, c, t, a) == [row |-> r, col |-> c, text |-> t, args |-> a]

\* seq: 1 for a draw() that follows another foreground operation, 2 for one that
\* follows a draw().
NoOutput == [seq |-> 0, stamp |-> -1, writes |-> {}]

\* Lines 203-206.
Formats == IF _compact THEN <<"format_compact">>
                       ELSE <<"format_full_1", "format_full_2">>

\* Lines 216-219: 0 (no selection), 1 ('bold'), 2 ('dim').
Attr(s) == IF selected = 0 THEN 0 ELSE IF s.dev = selected THEN 1 ELSE 2

YStartNoSeparator(i) == 4 + Len(Formats) * i

\* Line 215, for the snapshot at (1-based) place i.
YStart(i) == 4 + (Len(Formats) + 1) * i

\* Lines 221-225: the rows of the snapshot at place i.
RowWrites(i) ==
    LET s == _snapshots.items[i]
        c == IF s.cooked THEN 1 ELSE 0
    IN  UNION {{Write(YStart(i) + k - 1, 0, Formats[k], <<s.of, s.dev, c>>),
                Write(YStart(i) + k - 1, 1, "color", <<31, Attr(s), s.of, s.dev>>),
                Write(YStart(i) + k - 1, 33, "color", <<22, Attr(s), s.of, s.dev>>),
                Write(YStart(i) + k - 1, 56, "color", <<22, Attr(s), s.of, s.dev>>)}
               : k \in 1..Len(Formats)}

\* Lines 250-253: one bar.
BarWrites(s, x_offset, y, w, prefix) ==
    {Write(y, 80 + x_offset, prefix, <<w, s.of, s.dev>>),
     Write(y, 80 + x_offset, "color", <<w, Attr(s), s.of, s.dev>>)}

\* Lines 227-253: the bars of the snapshot at place i.
BarsWrites(i) ==
    LET s == _snapshots.items[i]
        remaining_width == width - 79
        left_width == ((remaining_width - 6 + 1) \div 2) - 1
        right_width == ((remaining_width - 6) \div 2) + 1
    IN  IF width < 100
        THEN {}
        ELSE IF ~_compact
        THEN BarWrites(s, 0, YStart(i), remaining_width - 3, "MEM")
             \cup BarWrites(s, 0, YStart(i) + 1, remaining_width - 3, "UTL")
        ELSE IF remaining_width >= 44
        THEN {Write(YStart(i) - 1, 80 + left_width + 1,
                    IF i - 1 > 0 THEN "cross" ELSE "tee_down", <<>>),
              Write(YStart(i), 80 + left_width + 1, "bar", <<>>)}
             \cup (IF i - 1 = Len(_snapshots.items) - 1
                   THEN {Write(YStart(i) + 1, 80 + left_width + 1, "tee_up", <<>>)}
                   ELSE {})
             \cup BarWrites(s, 0, YStart(i), left_width, "MEM")
             \cup BarWrites(s, left_width + 3, YStart(i), right_width, "UTL")
        ELSE BarWrites(s, 0, YStart(i), remaining_width - 3, "MEM")

\* Lines 191-253: everything draw() writes when time.strftime reads stamp.
DrawOutput(stamp) ==
    (IF need_redraw
     THEN {Write(0, 0, "title", <<>>), Write(0, 55, "color", <<1>>),
           Write(0, 69, "color", <<1>>)}
          \cup {Write(k, 0, FrameLines(_compact)[k].kind, <<FrameLines(_compact)[k].ext>>)
                : k \in 1..Len(FrameLines(_compact))}
     ELSE {})
    \cup {Write(0, 0, "time", <<stamp>>)}
    \cup UNION {RowWrites(i) \cup BarsWrites(i) : i \in 1..Len(_snapshots.items)}

\* Lines 264-306: the lines print() writes.
PrintLines ==
    LET head == <<Line("time")>> \o HeaderLines(FALSE)
        n == Len(_snapshots.items)
        remaining_width == width - 79
        rows == [j \in 1..(3 * n) |->
                    LET s == _snapshots.items[((j - 1) \div 3) + 1]
                    IN  IF (j - 1) % 3 = 0
                        THEN [Line("format_full_1") EXCEPT !.of = s.of, !.dev = s.dev]
                        ELSE IF (j - 1) % 3 = 1
                        THEN [Line("format_full_2") EXCEPT !.of = s.of, !.dev = s.dev]
                        ELSE Line("separator")]
        plain == head \o SubSeq(rows, 1, Len(rows) - 1) \o <<Line("bottom")>>
        \* lines 282-304, with the 0-based index y of the code at place y + 1
        wide == [y \in 1..Len(plain) |->
                    IF y >= 7 /\ (y - 7) % 3 = 0
                    THEN [plain[y] EXCEPT !.ext = remaining_width]
                    ELSE IF y >= 8
                    THEN [plain[y] EXCEPT !.bar = TRUE]
                    ELSE plain[y]]
    IN  IF device_count > 0
        THEN IF width >= 100 THEN wide ELSE plain
        ELSE head


----------------------------------------------------------------------------
\* take_snapshots, run by thread t

CacheLiveNoExpiry == cache # NoList

\* ttl_cache: an entry is live while less than ttl has passed since it was stored.
CacheLive == cache # NoList /\ cacheAge < TTL

BodyPublishFirst == <<"ts_query", "ts_lock", "ts_write", "ts_unlock", "ts_cosmetic">>

BodyLockFirst == <<"ts_lock", "ts_query", "ts_cosmetic", "ts_write", "ts_unlock">>

BodyWriteUnlocked == <<"ts_query", "ts_cosmetic", "ts_write", "ts_lock", "ts_unlock">>

\* The statements of the body of take_snapshots, in program order.
TakeSnapshotsBody == <<"ts_query", "ts_cosmetic", "ts_lock", "ts_write", "ts_unlock">>

BodyIndex(p) == CHOOSE i \in 1..Len(TakeSnapshotsBody) : TakeSnapshotsBody[i] = p

\* The statement after statement p; the wrapper stores the result after the body.
After(p) == IF BodyIndex(p) = Len(TakeSnapshotsBody)
            THEN "ts_store"
            ELSE TakeSnapshotsBody[BodyIndex(p) + 1]

\* Where thread t continues when its take_snapshots call has returned.
Continue(t) == IF t = "main" THEN "set_lock" ELSE "sleep"

\* The effects of returning list r from t's call.
Return(t, r) ==
    /\ pc' = [pc EXCEPT ![t] = Continue(t)]
    /\ value' = IF t = "main" THEN r ELSE value
    /\ sleepLeft' = IF t = "daemon" THEN SNAPSHOT_INTERVAL ELSE sleepLeft

\* The ttl_cache wrapper's lookup: a live entry is returned, else the body runs.
Lookup(t) ==
    /\ pc[t] = "ts_call"
    /\ IF CacheLive
       THEN /\ call' = [call EXCEPT ![t] = [hit |-> TRUE, age |-> cacheAge,
                                            since |-> sinceCall, nq |-> 0,
                                            wrote |-> FALSE, done |-> TRUE,
                                            ret |-> cache.id]]
            /\ Return(t, cache)
            /\ UNCHANGED <<local, sinceCall>>
       ELSE /\ call' = [call EXCEPT ![t] = [hit |-> FALSE,
                                            age |-> IF cache = NoList THEN TTL ELSE cacheAge,
                                            since |-> sinceCall, nq |-> 0,
                                            wrote |-> FALSE, done |-> FALSE,
                                            ret |-> -1]]
            /\ local' = [local EXCEPT ![t] = [id |-> FreshId, by |-> t, items |-> <<>>]]
            /\ pc' = [pc EXCEPT ![t] = TakeSnapshotsBody[1]]
            /\ sinceCall' = 0
            /\ UNCHANGED <<value, sleepLeft>>
    /\ UNCHANGED <<geometry, lastDraw, program, device_count, _snapshot_buffer, _snapshots, snapshot_lock,
                   _daemon_running, daemon_started, start_error, constructed, cache, cacheAge>>

\* Line 100: one device.as_snapshot() per device, in device order.
Query(t) ==
    /\ pc[t] = "ts_query"
    /\ IF Len(local[t].items) < device_count
       THEN /\ local' = [local EXCEPT ![t].items =
                            Append(@, AsSnapshot(Len(@) + 1, local[t].id))]
            /\ call' = [call EXCEPT ![t].nq = @ + 1]
            /\ pc' = pc
       ELSE /\ pc' = [pc EXCEPT ![t] = After("ts_query")]
            /\ UNCHANGED <<local, call>>
    /\ UNCHANGED <<geometry, lastDraw, program, device_count, value, _snapshot_buffer, _snapshots, snapshot_lock,
                   _daemon_running, daemon_started, start_error, constructed, cache, cacheAge,
                   sinceCall, sleepLeft>>

\* The first snapshot of list l the loop of line 102 has not rewritten yet (0: none).
FirstRaw(l) == IF \E i \in 1..Len(l.items) : ~l.items[i].cooked
               THEN CHOOSE i \in 1..Len(l.items) :
                        /\ ~l.items[i].cooked
                        /\ \A j \in 1..(i - 1) : l.items[j].cooked
               ELSE 0

\* Lines 102-112: the cosmetic rewrite, one snapshot per step.
CosmeticStep(t) ==
    /\ pc[t] = "ts_cosmetic"
    /\ IF FirstRaw(local[t]) # 0
       THEN /\ local' = [local EXCEPT ![t].items[FirstRaw(local[t])] = Cosmetic(@)]
            /\ pc' = pc
       ELSE /\ pc' = [pc EXCEPT ![t] = After("ts_cosmetic")]
            /\ local' = local
    /\ UNCHANGED <<geometry, lastDraw, program, device_count, call, value, _snapshot_buffer, _snapshots,
                   snapshot_lock, _daemon_running, daemon_started, start_error, constructed,
                   cache, cacheAge, sinceCall, sleepLeft>>

\* Line 114: with self.snapshot_lock (entry).
BodyLock(t) ==
    /\ pc[t] = "ts_lock"
    /\ snapshot_lock = "free"
    /\ snapshot_lock' = t
    /\ pc' = [pc EXCEPT ![t] = After("ts_lock")]
    /\ UNCHANGED <<geometry, lastDraw, program, device_count, local, call, value, _snapshot_buffer, _snapshots,
                   _daemon_running, daemon_started, start_error, constructed, cache, cacheAge,
                   sinceCall, sleepLeft>>

\* Line 115: self._snapshot_buffer = snapshots.
BodyWrite(t) ==
    /\ pc[t] = "ts_write"
    /\ _snapshot_buffer' = local[t]
    /\ call' = [call EXCEPT ![t].wrote = TRUE]
    /\ pc' = [pc EXCEPT ![t] = After("ts_write")]
    /\ UNCHANGED <<geometry, lastDraw, program, device_count, local, value, _snapshots, snapshot_lock,
                   _daemon_running, daemon_started, start_error, constructed, cache, cacheAge,
                   sinceCall, sleepLeft>>

\* Line 114: with self.snapshot_lock (exit).
BodyUnlock(t) ==
    /\ pc[t] = "ts_unlock"
    /\ snapshot_lock' = IF snapshot_lock = t THEN "free" ELSE snapshot_lock
    /\ pc' = [pc EXCEPT ![t] = After("ts_unlock")]
    /\ UNCHANGED <<geometry, lastDraw, program, device_count, local, call, value, _snapshot_buffer, _snapshots,
                   _daemon_running, daemon_started, start_error, constructed, cache, cacheAge,
                   sinceCall, sleepLeft>>

\* The ttl_cache wrapper after the body: cache.setdefault(key, result).
Store(t) ==
    /\ pc[t] = "ts_store"
    /\ IF CacheLive
       THEN /\ UNCHANGED <<cache, cacheAge>>
            /\ call' = [call EXCEPT ![t].done = TRUE, ![t].ret = cache.id]
            /\ Return(t, cache)
       ELSE /\ cache' = local[t]
            /\ cacheAge' = 0
            /\ call' = [call EXCEPT ![t].done = TRUE, ![t].ret = local[t].id]
            /\ Return(t, local[t])
    /\ local' = [local EXCEPT ![t] = NoList]
    /\ UNCHANGED <<geometry, lastDraw, program, device_count, _snapshot_buffer, _snapshots, snapshot_lock,
                   _daemon_running, daemon_started, start_error, constructed, sinceCall>>

----------------------------------------------------------------------------
\* The snapshots setter (lines 93-96), run by the foreground

SetterLock ==
    /\ pc["main"] = "set_lock"
    /\ snapshot_lock = "free"
    /\ snapshot_lock' = "main"
    /\ pc' = [pc EXCEPT !["main"] = "set_write"]
    /\ UNCHANGED <<geometry, lastDraw, program, device_count, local, call, value, _snapshot_buffer, _snapshots,
                   _daemon_running, daemon_started, start_error, constructed, cache, cacheAge,
                   sinceCall, sleepLeft>>

SetterWrite ==
    /\ pc["main"] = "set_write"
    /\ _snapshots' = value
    /\ pc' = [pc EXCEPT !["main"] = "set_unlock"]
    /\ UNCHANGED <<geometry, lastDraw, program, device_count, local, call, value, _snapshot_buffer,
                   snapshot_lock, _daemon_running, daemon_started, start_error, constructed,
                   cache, cacheAge, sinceCall, sleepLeft>>

\* Releases the lock; the constructor (lines 42-65) or poke (line 189) then finishes.
SetterUnlock ==
    /\ pc["main"] = "set_unlock"
    /\ snapshot_lock' = "free"
    /\ value' = NoList
    /\ constructed' = TRUE
    /\ pc' = [pc EXCEPT !["main"] = "ready"]
    /\ UNCHANGED <<geometry, lastDraw, program, device_count, local, call, _snapshot_buffer, _snapshots,
                   _daemon_running, daemon_started, start_error, cache, cacheAge, sinceCall,
                   sleepLeft>>

----------------------------------------------------------------------------
\* poke and destroy, run by the foreground

\* Lines 183-185: a poke that finds the event clear sets it and starts the daemon
\* thread; Thread.start() on a started thread raises RuntimeError, which leaves poke.
PokeStart ==
    /\ pc["main"] = "ready"
    /\ IF ~_daemon_running
       THEN /\ _daemon_running' = TRUE
            /\ daemon_started' = TRUE
            /\ start_error' = (start_error \/ daemon_started)
            /\ pc' = [pc EXCEPT !["main"] = IF daemon_started THEN "ready"
                                                              ELSE "poke_read"]
       ELSE /\ UNCHANGED <<_daemon_running, daemon_started, start_error>>
            /\ pc' = [pc EXCEPT !["main"] = "poke_read"]
    /\ lastDraw' = NoOutput
    /\ UNCHANGED <<geometry, program, device_count, local, call, value, _snapshot_buffer, _snapshots,
                   snapshot_lock, constructed, cache, cacheAge, sinceCall, sleepLeft>>

\* Line 187, right-hand side: self._snapshot_buffer is read, then the setter is called.
PokeRead ==
    /\ pc["main"] = "poke_read"
    /\ value' = _snapshot_buffer
    /\ pc' = [pc EXCEPT !["main"] = "set_lock"]
    /\ UNCHANGED <<geometry, lastDraw, program, device_count, local, call, _snapshot_buffer, _snapshots,
                   snapshot_lock, _daemon_running, daemon_started, start_error, constructed,
                   cache, cacheAge, sinceCall, sleepLeft>>

\* Lines 255-257, called where the foreground is at `at` and leaving it at `to`.
Destroy(at, to) ==
    /\ pc["main"] = at
    /\ _daemon_running' = FALSE
    /\ pc' = [pc EXCEPT !["main"] = to]
    /\ lastDraw' = NoOutput
    /\ UNCHANGED <<geometry, program, device_count, local, call, value,
                   _snapshot_buffer, _snapshots, snapshot_lock, daemon_started, start_error,
                   constructed, cache, cacheAge, sinceCall, sleepLeft>>

----------------------------------------------------------------------------
\* Geometry, draw and print, run by the foreground

\* Lines 82-87: the compact setter.
SetCompact(v) ==
    /\ pc["main"] = "ready"
    /\ IF _compact # v
       THEN /\ need_redraw' = TRUE
            /\ _compact' = v
            /\ height' = IF v THEN compact_height ELSE full_height
       ELSE UNCHANGED <<need_redraw, _compact, height>>
    /\ lastDraw' = NoOutput
    /\ UNCHANGED <<width, full_height, compact_height, selected, program,
                   device_count, pc, local, call, value, _snapshot_buffer,
                   _snapshots, snapshot_lock, _daemon_running, daemon_started, start_error,
                   constructed, cache, cacheAge, sinceCall, sleepLeft>>

\* Lines 71-76: the width setter, called on a resize of a visible panel.
SetWidth(w) ==
    /\ pc["main"] = "ready"
    /\ mode = "monitor"
    /\ width' = Max(79, w)
    /\ need_redraw' = IF width # Max(79, w) THEN TRUE ELSE need_redraw
    /\ lastDraw' = NoOutput
    /\ UNCHANGED <<_compact, height, full_height, compact_height, selected, program,
                   device_count, pc, local, call, value, _snapshot_buffer,
                   _snapshots, snapshot_lock, _daemon_running, daemon_started, start_error,
                   constructed, cache, cacheAge, sinceCall, sleepLeft>>

NeedRedrawCleared == FALSE

\* draw() assigns nothing to self.need_redraw.
NeedRedrawAfterDraw == need_redraw

\* Lines 191-253.
Draw ==
    /\ pc["main"] = "ready"
    /\ mode = "monitor"
    /\ \E stamp \in ClockReadings :
           lastDraw' = [seq |-> IF lastDraw = NoOutput THEN 1 ELSE 2,
                        stamp |-> stamp,
                        writes |-> DrawOutput(stamp)]
    /\ need_redraw' = NeedRedrawAfterDraw
    /\ UNCHANGED <<_compact, width, height, full_height, compact_height, selected,
                   program, device_count, pc, local, call, value, _snapshot_buffer,
                   _snapshots, snapshot_lock, _daemon_running, daemon_started, start_error,
                   constructed, cache, cacheAge, sinceCall, sleepLeft>>

\* Lines 264-313, called by main at line 191.
PrintPanel ==
    /\ pc["main"] = "ready"
    /\ stdout' = PrintLines
    /\ prints' = prints + 1
    /\ lastDraw' = NoOutput
    /\ pc' = [pc EXCEPT !["main"] = "printed"]
    /\ UNCHANGED <<geometry, monitor, messages, count, mode, tops, stderr, rc,
                   device_count, local, call, value, _snapshot_buffer, _snapshots,
                   snapshot_lock, _daemon_running, daemon_started, start_error, constructed,
                   cache, cacheAge, sinceCall, sleepLeft, coloring>>

----------------------------------------------------------------------------
\* main() of cli.py

panel == <<device_count, local, call, value, _snapshot_buffer, _snapshots,
           snapshot_lock, _daemon_running, daemon_started, start_error, constructed, cache,
           cacheAge, sinceCall, sleepLeft, lastDraw>>

\* The two threshold options: GPU utilization and memory utilization.
Kinds == {"gpu", "mem"}

\* Values given as th1 and th2: below, at the ends of and above range(1, 100).
ThresholdValues == {0, 1, 99, 100}

\* What an option is given on the command line: nothing, or nargs=2 values.
ArgvInputs == {<<>>} \cup {<<a, b>> : a, b \in ThresholdValues}

\* The value of an environment variable: unset, or a comma-separated string, of
\* integers (numeric) or with another word in it.
EnvUnset == [set |-> FALSE, numeric |-> FALSE, ints |-> <<>>]

EnvInputs ==
    {EnvUnset,
     [set |-> TRUE, numeric |-> FALSE, ints |-> <<>>],
     [set |-> TRUE, numeric |-> TRUE, ints |-> <<1>>],
     [set |-> TRUE, numeric |-> TRUE, ints |-> <<1, 99, 100>>]}
    \cup {[set |-> TRUE, numeric |-> TRUE, ints |-> <<a, b>>] : a, b \in ThresholdValues}

\* Line 46, line 50: choices=range(1, 100) for each of the two values.
ArgvAccepted(given) == \A i \in 1..Len(given) : given[i] \in 1..99

\* Lines 79-87, 89-97: the option read from the environment (<<>>: left None).
FromEnvironment(e) ==
    LET thresh == SubSeq(e.ints, 1, Min(2, Len(e.ints)))
    IN  IF ~e.set \/ ~e.numeric
        THEN <<>>
        ELSE IF Len(thresh) # 2
                \/ Min(thresh[1], thresh[2]) <= 0
                \/ Max(thresh[1], thresh[2]) >= 100
        THEN <<>>
        ELSE thresh

\* sorted() of a pair.
Sorted(pair) == <<Min(pair[1], pair[2]), Max(pair[1], pair[2])>>

\* Lines 19-97: parse_arguments. argparse leaves the program with status 2 when a
\* value is not among the choices; an option not given is read from the environment.
ParseArguments ==
    /\ pc["main"] = "parse_arguments"
    /\ IF \A k \in Kinds : ArgvAccepted(argv[k])
       THEN /\ args_thresh' = [k \in Kinds |->
                                  IF argv[k] # <<>> THEN argv[k]
                                  ELSE FromEnvironment(environ[k])]
            /\ pc' = [pc EXCEPT !["main"] = "main_arguments"]
            /\ UNCHANGED <<stderr, rc>>
       ELSE /\ stderr' = stderr + 1
            /\ rc' = 2
            /\ pc' = [pc EXCEPT !["main"] = "exit"]
            /\ UNCHANGED args_thresh
    /\ UNCHANGED <<geometry, panel, monitor, messages, count, mode, tops, stdout,
                   prints, argv, environ, device_thresholds>>

\* Lines 138-141.
MainThresholds ==
    /\ pc["main"] = "main_thresholds"
    /\ device_thresholds' = [k \in Kinds |->
                                IF args_thresh[k] # <<>> THEN Sorted(args_thresh[k])
                                ELSE device_thresholds[k]]
    /\ pc' = [pc EXCEPT !["main"] = "main_devices"]
    /\ UNCHANGED <<geometry, panel, monitor, messages, count, mode, tops, stdout,
                   prints, stderr, rc, argv, environ, args_thresh>>

\* Lines 108-125: the switches --once and --monitor, whether stdin and stdout are
\* a terminal, and NVITOP_MONITOR_ALWAYS.
MainArguments ==
    /\ pc["main"] = "main_arguments"
    /\ \E once \in BOOLEAN, monitorSwitch \in BOOLEAN, tty \in BOOLEAN,
          always \in BOOLEAN :
           LET both == once /\ monitorSwitch
               monitor1 == monitorSwitch /\ ~both
               monitor2 == monitor1 \/ (~once /\ ~monitor1 /\ tty /\ always)
           IN  /\ monitor' = (monitor2 /\ tty)
               /\ messages' = (IF both THEN {"once_and_monitor"} ELSE {})
                              \cup (IF monitor2 /\ ~tty THEN {"not_a_tty"} ELSE {})
    /\ pc' = [pc EXCEPT !["main"] = "main_count"]
    /\ UNCHANGED <<geometry, panel, count, mode, tops, stdout, prints, stderr, rc, coloring>>

\* Lines 130-133: Device.count() raises NVMLError_LibraryNotFound.
MainLibraryNotFound ==
    /\ pc["main"] = "main_count"
    /\ rc' = 1
    /\ pc' = [pc EXCEPT !["main"] = "exit"]
    /\ UNCHANGED <<geometry, panel, monitor, messages, count, mode, tops, stdout,
                   prints, stderr, coloring>>

\* Lines 130-136: Device.count() raises another NVMLError.
MainNVMLError ==
    /\ pc["main"] = "main_count"
    /\ stderr' = stderr + 1
    /\ rc' = 1
    /\ pc' = [pc EXCEPT !["main"] = "exit"]
    /\ UNCHANGED <<geometry, panel, monitor, messages, count, mode, tops, stdout,
                   prints, coloring>>

\* Line 131: Device.count() returns n.
MainCount ==
    /\ pc["main"] = "main_count"
    /\ \E n \in 0..MaxDevices : count' = n
    /\ pc' = [pc EXCEPT !["main"] = "main_thresholds"]
    /\ UNCHANGED <<geometry, panel, monitor, messages, mode, tops, stdout, prints,
                   stderr, rc, coloring>>

\* Lines 143-155: the devices tracked, by --only, by --only-visible or all.
MainDevices ==
    /\ pc["main"] = "main_devices"
    /\ \/ \E only \in (SUBSET (0..MaxDevices)) \ {{}} :
             LET invalid == only \ (0..(count - 1))
             IN  /\ device_count' = Cardinality(only \cap (0..(count - 1)))
                 /\ messages' = messages \cup
                        (IF Cardinality(invalid) > 1 THEN {"invalid_indices"}
                         ELSE IF Cardinality(invalid) = 1 THEN {"invalid_index"}
                         ELSE {})
       \/ \E visible \in SUBSET (0..(count - 1)) :
             /\ device_count' = Cardinality(visible)
             /\ messages' = messages
       \/ /\ device_count' = count
          /\ messages' = messages
    /\ pc' = [pc EXCEPT !["main"] = "main_top"]
    /\ UNCHANGED <<geometry, local, call, value, _snapshot_buffer, _snapshots,
                   snapshot_lock, _daemon_running, daemon_started, start_error, constructed,
                   cache, cacheAge, sinceCall, sleepLeft, lastDraw, monitor,
                   count, mode, tops, stdout, prints, stderr, rc, coloring>>

\* DevicePanel.__init__, lines 24-40, as Top's constructor calls it.
NewPanel ==
    /\ \E c \in BOOLEAN, w \in RootWidths :
           /\ _compact' = NewGeometry(device_count, c, w).compact
           /\ width' = NewGeometry(device_count, c, w).width
           /\ height' = NewGeometry(device_count, c, w).height
           /\ full_height' = NewGeometry(device_count, c, w).full
           /\ compact_height' = NewGeometry(device_count, c, w).compactH
    /\ need_redraw' \in BOOLEAN
    /\ selected' \in Selections(device_count)
    /\ tops' = tops + 1
    /\ pc' = [pc EXCEPT !["main"] = "ts_call"]

\* Lines 182-189: under `watch`, with stdout not a terminal, a hint is printed.
WatchHint == \E hint \in BOOLEAN : stderr' = stderr + (IF hint THEN 1 ELSE 0)

\* Lines 169-174: monitor mode, libcurses gives a window and Top is constructed.
MainMonitor ==
    /\ pc["main"] = "main_top"
    /\ monitor /\ device_count > 0
    /\ mode' = "monitor"
    /\ NewPanel
    /\ UNCHANGED <<panel, monitor, messages, count, stdout, prints, stderr, rc, coloring>>

\* Lines 169-181: monitor mode, curses.error before Top is constructed; top is
\* None and the text Top is constructed.
MainCursesError ==
    /\ pc["main"] = "main_top"
    /\ monitor /\ device_count > 0
    /\ messages' = messages \cup {"curses"}
    /\ mode' = "text"
    /\ NewPanel
    /\ WatchHint
    /\ UNCHANGED <<panel, monitor, count, stdout, prints, rc, coloring>>

\* Lines 169-181: no monitor mode or no device; the text Top is constructed.
MainText ==
    /\ pc["main"] = "main_top"
    /\ ~(monitor /\ device_count > 0)
    /\ mode' = "text"
    /\ NewPanel
    /\ WatchHint
    /\ UNCHANGED <<panel, monitor, messages, count, stdout, prints, rc, coloring>>

MainLoopErrorSwallowed ==
    /\ pc["main"] = "ready"
    /\ mode = "monitor"
    /\ "curses" \notin messages
    /\ messages' = messages \cup {"curses"}
    /\ lastDraw' = NoOutput
    /\ UNCHANGED <<geometry, device_count, pc, local, call, value, _snapshot_buffer,
                   _snapshots, snapshot_lock, _daemon_running, daemon_started, start_error,
                   constructed, cache, cacheAge, sinceCall, sleepLeft, monitor,
                   count, mode, tops, stdout, prints, stderr, rc, coloring>>

\* Lines 175-177: curses.error in top.loop() is raised again and leaves main.
MainLoopError ==
    /\ pc["main"] = "ready"
    /\ mode = "monitor"
    /\ rc' = 1
    /\ lastDraw' = NoOutput
    /\ pc' = [pc EXCEPT !["main"] = "raised"]
    /\ UNCHANGED <<geometry, device_count, local, call, value, _snapshot_buffer,
                   _snapshots, snapshot_lock, _daemon_running, daemon_started, start_error,
                   constructed, cache, cacheAge, sinceCall, sleepLeft, monitor,
                   messages, count, mode, tops, stdout, prints, stderr, coloring>>

\* Lines 194-213: the messages are printed, one print each, and main returns;
\* one unknown function adds three messages.
MainReport ==
    /\ pc["main"] = "destroyed"
    /\ \E unknown \in BOOLEAN :
           LET lines == Cardinality(messages) + (IF unknown THEN 3 ELSE 0)
           IN  /\ stderr' = stderr + lines
               /\ rc' = IF lines > 0 THEN 1 ELSE 0
    /\ pc' = [pc EXCEPT !["main"] = "exit"]
    /\ UNCHANGED <<geometry, panel, monitor, messages, count, mode, tops, stdout,
                   prints, coloring>>

----
\* _snapshot_target, run by the daemon thread

LoopAlways == TRUE

\* The condition of the while loop of line 121.
LoopCondition == _daemon_running

\* Thread.start() has been called: the thread runs _snapshot_target.
DaemonBegin ==
    /\ pc["daemon"] = "unstarted"
    /\ daemon_started
    /\ pc' = [pc EXCEPT !["daemon"] = "wait"]
    /\ UNCHANGED <<geometry, lastDraw, program, device_count, local, call, value, _snapshot_buffer, _snapshots,
                   snapshot_lock, _daemon_running, daemon_started, start_error, constructed,
                   cache, cacheAge, sinceCall, sleepLeft>>

\* Line 120: self._daemon_running.wait() returns.
DaemonWait ==
    /\ pc["daemon"] = "wait"
    /\ _daemon_running
    /\ pc' = [pc EXCEPT !["daemon"] = "check"]
    /\ UNCHANGED <<geometry, lastDraw, program, device_count, local, call, value, _snapshot_buffer, _snapshots,
                   snapshot_lock, _daemon_running, daemon_started, start_error, constructed,
                   cache, cacheAge, sinceCall, sleepLeft>>

\* Line 121: while self._daemon_running.is_set().
DaemonCheck ==
    /\ pc["daemon"] = "check"
    /\ pc' = [pc EXCEPT !["daemon"] = IF LoopCondition THEN "ts_call" ELSE "done"]
    /\ UNCHANGED <<geometry, lastDraw, program, device_count, local, call, value, _snapshot_buffer, _snapshots,
                   snapshot_lock, _daemon_running, daemon_started, start_error, constructed,
                   cache, cacheAge, sinceCall, sleepLeft>>

\* Line 123: time.sleep(self.SNAPSHOT_INTERVAL) returns.
DaemonWake ==
    /\ pc["daemon"] = "sleep"
    /\ sleepLeft = 0
    /\ pc' = [pc EXCEPT !["daemon"] = "check"]
    /\ UNCHANGED <<geometry, lastDraw, program, device_count, local, call, value, _snapshot_buffer, _snapshots,
                   snapshot_lock, _daemon_running, daemon_started, start_error, constructed,
                   cache, cacheAge, sinceCall, sleepLeft>>

----------------------------------------------------------------------------
\* Time

\* d tenths pass.
Tick(d) ==
    /\ cacheAge' = Min(TTL, cacheAge + d)
    /\ sinceCall' = Min(TTL, sinceCall + d)
    /\ sleepLeft' = Max(0, sleepLeft - d)
    /\ UNCHANGED <<geometry, lastDraw, program, device_count, pc, local, call, value, _snapshot_buffer,
                   _snapshots, snapshot_lock, _daemon_running, daemon_started, start_error,
                   constructed, cache>>

----------------------------------------------------------------------------
\* The fields lines 38-44 set; `started` tells whether the daemon thread has been
\* started and released.
PanelFields(started) ==
    /\ local = [t \in Threads |-> NoList]
    /\ call = [t \in Threads |-> NoCall]
    /\ value = NoList
    /\ _snapshot_buffer = EmptyBuffer
    /\ _snapshots = EmptyCurrent
    /\ snapshot_lock = "free"
    /\ _daemon_running = started
    /\ daemon_started = started
    /\ start_error = FALSE
    /\ constructed = FALSE
    /\ cache = NoList
    /\ cacheAge = TTL
    /\ sinceCall = TTL
    /\ sleepLeft = 0
    /\ lastDraw = NoOutput

\* No threshold option is given, on the command line or in the environment.
NoThresholds ==
    /\ argv = [k \in Kinds |-> <<>>]
    /\ environ = [k \in Kinds |-> EnvUnset]
    /\ args_thresh = [k \in Kinds |-> <<>>]
    /\ device_thresholds = [k \in Kinds |-> <<>>]

\* A panel of n devices in a root of width w, with lines 24-40 run and line 41 next.
PanelInit(started, c, w) ==
    /\ device_count \in 0..MaxDevices
    /\ pc = [t \in Threads |-> IF t = "main" THEN "ts_call" ELSE "unstarted"]
    /\ PanelFields(started)
    /\ _compact = NewGeometry(device_count, c, w).compact
    /\ width = NewGeometry(device_count, c, w).width
    /\ height = NewGeometry(device_count, c, w).height
    /\ full_height = NewGeometry(device_count, c, w).full
    /\ compact_height = NewGeometry(device_count, c, w).compactH
    /\ need_redraw \in BOOLEAN
    /\ selected \in Selections(device_count)
    /\ monitor = (device_count > 0)
    /\ messages = {}
    /\ count = device_count
    /\ mode = IF device_count > 0 THEN "monitor" ELSE "text"
    /\ tops = 1
    /\ stdout = <<>>
    /\ prints = 0
    /\ stderr = 0
    /\ rc = -1
    /\ NoThresholds

InitStarted == PanelInit(TRUE, FALSE, 100) /\ need_redraw /\ selected = 0

\* Lines 38-44: the thread is created after line 41 and is started by poke only.
Init == PanelInit(FALSE, FALSE, 100) /\ need_redraw /\ selected = 0

\* The panel of a Top in any geometry.
InitUI == \E c \in BOOLEAN, w \in RootWidths : PanelInit(FALSE, c, w)

\* The program with its foreground at statement `at`; no panel exists.
MainEntered(at) ==
    /\ pc = [t \in Threads |-> IF t = "main" THEN at ELSE "unstarted"]
    /\ PanelFields(FALSE)
    /\ device_count = 0
    /\ _compact = FALSE
    /\ width = 79
    /\ height = 0
    /\ full_height = 0
    /\ compact_height = 0
    /\ need_redraw = FALSE
    /\ selected = 0
    /\ monitor = FALSE
    /\ messages = {}
    /\ count = -1
    /\ mode = "none"
    /\ tops = 0
    /\ stdout = <<>>
    /\ prints = 0
    /\ stderr = 0
    /\ rc = -1

\* main() is entered: parse_arguments has returned, no threshold option was given.
InitMain == MainEntered("main_arguments") /\ NoThresholds

\* The program is started with threshold options: an option given on the command
\* line is not looked up in the environment.
InitThresholds ==
    /\ MainEntered("parse_arguments")
    /\ argv \in [Kinds -> ArgvInputs]
    /\ environ \in [Kinds -> EnvInputs]
    /\ \A k \in Kinds : argv[k] # <<>> => environ[k] = EnvUnset
    /\ args_thresh = [k \in Kinds |-> <<>>]
    /\ device_thresholds = [k \in Kinds |-> <<>>]

TakeSnapshots(t) ==
    \/ Lookup(t)
    \/ Query(t)
    \/ CosmeticStep(t)
    \/ BodyLock(t)
    \/ BodyWrite(t)
    \/ BodyUnlock(t)
    \/ Store(t)

\* The constructor from line 41 on, poke, print, destroy and the end of main.
Foreground ==
    \/ TakeSnapshots("main")
    \/ SetterLock
    \/ SetterWrite
    \/ SetterUnlock
    \/ PokeStart
    \/ PokeRead
    \/ PrintPanel
    \/ Destroy("printed", "destroyed")
    \/ MainReport

\* What the loop and the layout do with the panel between two pokes.
Interface ==
    \/ \E v \in BOOLEAN : SetCompact(v)
    \/ \E w \in RootWidths : SetWidth(w)
    \/ Draw

\* main() up to the construction of Top, and its way out of the loop.
Main ==
    \/ MainArguments
    \/ MainLibraryNotFound
    \/ MainNVMLError
    \/ MainCount
    \/ MainThresholds
    \/ MainDevices
    \/ MainMonitor
    \/ MainCursesError
    \/ MainText
    \/ MainLoopError

Daemon ==
    \/ DaemonBegin
    \/ DaemonWait
    \/ DaemonCheck
    \/ TakeSnapshots("daemon")
    \/ DaemonWake

\* The two threads of one panel, time in steps of one tenth.
Next ==
    \/ Foreground
    \/ Daemon
    \/ Tick(1)

Spec == Init /\ [][Next]_vars

\* The daemon thread is scheduled and time passes.
FairSpec == Init /\ [][Next]_vars /\ WF_vars(Daemon) /\ WF_vars(Tick(1))

\* The panel drawn, resized and poked, time in steps of one ttl.
NextUI ==
    \/ Foreground
    \/ Interface
    \/ Daemon
    \/ Tick(TTL)

SpecUI == InitUI /\ [][NextUI]_vars

\* One panel poked and destroyed in any order by its owner, time in steps of one ttl.
NextPanel ==
    \/ TakeSnapshots("main")
    \/ SetterLock
    \/ SetterWrite
    \/ SetterUnlock
    \/ PokeStart
    \/ PokeRead
    \/ Destroy("ready", "ready")
    \/ Daemon
    \/ Tick(TTL)

SpecPanel == Init /\ [][NextPanel]_vars

\* main() from its entry to its exit: the foreground thread alone.
NextMain ==
    \/ Main
    \/ Foreground
    \/ \E v \in BOOLEAN : SetCompact(v)

SpecMain == InitMain /\ [][NextMain]_vars

\* The program from its start to the installation of the thresholds.
NextThresholds ==
    \/ ParseArguments
    \/ MainArguments
    \/ MainLibraryNotFound
    \/ MainNVMLError
    \/ MainCount
    \/ MainThresholds

SpecThresholds == InitThresholds /\ [][NextThresholds]_vars

----------------------------------------------------------------------------
\* Properties

InCall(t) == pc[t] \in {"ts_query", "ts_cosmetic", "ts_lock", "ts_write",
                        "ts_unlock", "ts_store"}

\* List l is a whole batch: one rewritten snapshot per device, in device order,
\* all made for l.
Complete(l) ==
    /\ Len(l.items) = device_count
    /\ \A i \in 1..Len(l.items) :
           /\ l.items[i].dev = i
           /\ l.items[i].of = l.id
           /\ l.items[i].cooked

C2_CurrentIsWholeBatch ==
    constructed =>
        /\ Complete(_snapshots)
        /\ \A t \in Threads :
               pc[t] \in {"ts_query", "ts_cosmetic"} => local[t].id # _snapshots.id

C2_Witness ==
    /\ constructed
    /\ device_count = MaxDevices
    /\ _snapshots.by = "daemon"
    /\ pc["daemon"] = "ts_cosmetic"
    /\ Len(local["daemon"].items) = device_count

\* C3 as stated: poke reads the staged list and writes the current list under
\* the lock, so that the staged list is not rewritten between the two.
C3_SwapUnderLock ==
    (constructed /\ pc["main"] = "set_write") =>
        /\ snapshot_lock = "main"
        /\ value = _snapshot_buffer

\* C4: whoever holds snapshot_lock is at the single assignment it guards, with
\* every device query and cosmetic rewrite of its call behind it.
C4_NoQueryUnderLock ==
    \A t \in Threads :
        snapshot_lock = t =>
            /\ pc[t] \in {"ts_write", "ts_unlock", "set_write", "set_unlock"}
            /\ pc[t] \in {"ts_write", "ts_unlock"} =>
                   /\ call[t].nq = device_count
                   /\ Complete(local[t])

C4_Witness ==
    /\ snapshot_lock = "daemon"
    /\ pc["daemon"] = "ts_write"
    /\ device_count = MaxDevices

\* C5: the poller calls take_snapshots only after the constructor's call has
\* returned and the panel has been poked.
C5_NoCallBeforePoke ==
    (pc["daemon"] \notin {"unstarted", "wait"}) =>
        /\ constructed
        /\ daemon_started
        /\ call["main"].done
        /\ ~InCall("main")

C5_Witness ==
    /\ pc["daemon"] = "ts_query"
    /\ call["main"].done
    /\ call["daemon"].nq = 1

\* C6: once destroy has cleared the flag the poller leaves its loop at the next
\* check of the flag, it stops nowhere else, and it does stop.
C6_PollerStops ==
    /\ [][(~_daemon_running /\ pc["daemon"] = "check") =>
              pc'["daemon"] \in {"check", "done"}]_vars
    /\ [][pc'["daemon"] = "done" => pc["daemon"] \in {"check", "done"}]_vars
    /\ []((pc["main"] = "destroyed" /\ daemon_started) => <>(pc["daemon"] = "done"))

C6_Witness ==
    /\ pc["main"] = "destroyed"
    /\ pc["daemon"] = "done"
    /\ call["daemon"].done
    /\ ~call["daemon"].hit

\* C7 as stated: every take_snapshots call of the poller writes the staged list.
C7_EveryCallWrites ==
    call["daemon"].done => call["daemon"].wrote

\* C7, amended: the poller calls take_snapshots once per sleep of 0.7; a call
\* that finds no live cache entry writes its list to the staged slot under the
\* lock, a call within the dedup window returns the cached list and writes nothing.
C7_MissesWrite ==
    /\ call["daemon"].done => (call["daemon"].wrote <=> ~call["daemon"].hit)
    /\ \A t \in Threads : pc[t] = "ts_write" => snapshot_lock = t
    /\ (pc["daemon"] = "sleep" /\ ~call["daemon"].hit) =>
           _snapshot_buffer.id = call["daemon"].ret
    /\ pc["daemon"] \in {"check", "ts_call"} => sleepLeft = 0

C7_Witness ==
    /\ pc["daemon"] = "sleep"
    /\ call["daemon"].hit
    /\ cache.by = "daemon"
    /\ _snapshot_buffer = cache

\* What draw() is said to leave alone: the current and the staged list with their
\* contents, compact, width, height, need_redraw and the poller's running flag.
DataModel == <<_snapshots, _snapshot_buffer, _compact, width, height, need_redraw,
               _daemon_running>>

\* The writes of a draw() other than the clock text of line 201.
Untimed(output) == {w \in output.writes : w.text # "time"}

\* C8 as stated: a draw() changes nothing of the data model, and a draw() that
\* follows a draw() with no poke or resize in between writes what that one wrote.
C8_DrawIdempotent ==
    [][(lastDraw' # lastDraw /\ lastDraw' # NoOutput) =>
           /\ UNCHANGED DataModel
           /\ lastDraw # NoOutput => lastDraw'.writes = lastDraw.writes]_vars

\* C8, amended: a draw() changes nothing of the data model; a draw() that follows
\* a draw() with no poke or resize in between writes what that one wrote, except
\* for the clock text, which is the same when time.strftime reads the same second.
C8_DrawPure ==
    [][(lastDraw' # lastDraw /\ lastDraw' # NoOutput) =>
           /\ UNCHANGED DataModel
           /\ lastDraw # NoOutput =>
                  /\ Untimed(lastDraw') = Untimed(lastDraw)
                  /\ lastDraw'.stamp = lastDraw.stamp =>
                         lastDraw'.writes = lastDraw.writes]_vars

C8_Witness ==
    /\ lastDraw.seq = 2
    /\ lastDraw.stamp = 1
    /\ need_redraw
    /\ _compact
    /\ width = 123
    /\ device_count = MaxDevices
    /\ _snapshots.by = "daemon"
    /\ Cardinality(lastDraw.writes) > 4 + 2 * device_count

\* The 'No visible devices found' placeholder of lines 149-153.
Placeholder ==
    <<Line("top"), Line("driver"), Line("nodev_sep"), Line("nodev_text"),
      Line("nodev_bottom")>>

\* C9: a panel of zero devices has height, full_height and compact_height 6
\* whatever compact is set to; its header and frame are the placeholder, with no
\* device row; main constructs it in text mode, prints it once and the empty
\* enumeration adds no message: with no other message the exit status is 0.
C9_NoDevices ==
    (device_count = 0 /\ tops > 0) =>
        /\ height = 6 /\ full_height = 6 /\ compact_height = 6
        /\ \A c \in BOOLEAN : HeaderLines(c) = Placeholder /\ FrameLines(c) = Placeholder
        /\ mode = "text"
        /\ tops = 1
        /\ prints <= 1
        /\ prints = 1 => stdout = <<Line("time")>> \o Placeholder
        /\ "curses" \notin messages
        /\ pc["main"] = "exit" =>
               /\ prints = 1
               /\ stderr >= Cardinality(messages)
               /\ rc \in {0, 1}
               /\ messages # {} => rc = 1
               /\ rc = 1 => stderr > 0

C9_Witness ==
    /\ count = 0
    /\ device_count = 0
    /\ monitor
    /\ pc["main"] = "exit"
    /\ _compact
    /\ height = 6
    /\ prints = 1
    /\ stderr = 0
    /\ rc = 0

\* C10 as stated: when Device.count() raises, main constructs no Top, starts no
\* poller, renders nothing, prints one line to the error stream and returns a
\* non-zero status.
C10_CountFailureAborts ==
    (pc["main"] = "exit" /\ count = -1) =>
        /\ tops = 0
        /\ ~constructed
        /\ ~daemon_started
        /\ pc["daemon"] = "unstarted"
        /\ prints = 0
        /\ stdout = <<>>
        /\ stderr = 1
        /\ rc > 0

\* C11: a curses.error before Top is constructed is recorded as a message and
\* main goes on with the text Top alone, printed once and then destroyed, and
\* returns 1; a curses.error in the loop of a constructed Top leaves main with
\* no message recorded, nothing printed and no text Top constructed.
C11_SurfaceErrors ==
    /\ "curses" \in messages =>
           /\ monitor
           /\ mode = "text"
           /\ tops = 1
           /\ pc["main"] # "raised"
           /\ prints <= 1
           /\ prints = 1 <=> pc["main"] \in {"printed", "destroyed", "exit"}
           /\ pc["main"] \in {"destroyed", "exit"} => ~_daemon_running
           /\ pc["main"] = "exit" => rc = 1 /\ stderr >= 1
    /\ pc["main"] = "raised" =>
           /\ mode = "monitor"
           /\ tops = 1
           /\ constructed
           /\ "curses" \notin messages
           /\ prints = 0
           /\ stdout = <<>>
           /\ stderr = 0
           /\ rc = 1

C11_Witness ==
    /\ "curses" \in messages
    /\ device_count = MaxDevices
    /\ pc["main"] = "exit"
    /\ prints = 1
    /\ Len(stdout) > 6
    /\ rc = 1

\* The pair an option is given as: on the command line, else the first two
\* integers of the environment variable (<<>>: no pair).
Given(k) ==
    IF argv[k] # <<>> THEN argv[k]
    ELSE IF environ[k].set /\ environ[k].numeric /\ Len(environ[k].ints) >= 2
    THEN SubSeq(environ[k].ints, 1, 2)
    ELSE <<>>

\* Some order of the pair satisfies 1 <= th1 < th2 <= 99.
Satisfiable(pair) ==
    /\ Len(pair) = 2
    /\ pair[1] \in 1..99
    /\ pair[2] \in 1..99
    /\ pair[1] # pair[2]

\* C12 as stated: thresholds installed on Device satisfy 1 <= th1 < th2 <= 99,
\* and a pair given that cannot satisfy this leaves the default in place.
C12_ThresholdsOrdered ==
    \A k \in Kinds :
        /\ device_thresholds[k] # <<>> =>
               /\ 1 <= device_thresholds[k][1]
               /\ device_thresholds[k][1] < device_thresholds[k][2]
               /\ device_thresholds[k][2] <= 99
        /\ ~Satisfiable(Given(k)) => device_thresholds[k] = <<>>

\* The rows draw() has written device text on.
TextWrites(output) ==
    {w \in output.writes :
         w.text \in {"format_compact", "format_full_1", "format_full_2"}}

\* C13: height is compact_height when compact and full_height otherwise, and is
\* one more than the number of lines of the frame; every row draw() writes for
\* a snapshot is a blank data line of the frame, inside the panel's height.
C13_RowsOnDataLines ==
    LET frame == FrameLines(_compact)
    IN  /\ height = (IF _compact THEN compact_height ELSE full_height)
        /\ full_height = FullHeight(device_count)
        /\ compact_height = CompactHeight(device_count)
        /\ height = 1 + Len(frame)
        /\ \A i \in 1..Len(_snapshots.items) : \A k \in 1..Len(Formats) :
               /\ i <= device_count
               /\ YStart(i) + k - 1 \in 1..(height - 1)
               /\ frame[YStart(i) + k - 1].kind = "data"
        /\ \A w \in TextWrites(lastDraw) :
               /\ w.row \in 1..(height - 1)
               /\ frame[w.row].kind = "data"

C13_Witness ==
    /\ lastDraw.seq = 1
    /\ device_count = MaxDevices
    /\ _compact
    /\ height = 6 + 2 * MaxDevices
    /\ Cardinality(TextWrites(lastDraw)) = MaxDevices
    /\ \E w \in TextWrites(lastDraw) : w.row = height - 2

\* C14 as stated: in any sequence of poke and destroy the start of the poller
\* thread is attempted once at most, by the first poke, and no poke fails on
\* starting a started thread.
C14_StartedOnce == ~start_error

====
